---- MODULE Spec2Model ----
(***************************************************************************)
(* A model of the WorkTimeCounter server (src/server.js) and of the        *)
(* calculation core of its browser client (src/public/app.js).             *)
(*                                                                         *)
(* JavaScript values are tagged records:                                   *)
(*   [t |-> "undef"]            undefined (an absent field)                *)
(*   [t |-> "null"]             null                                       *)
(*   [t |-> "nan"]              the number NaN                             *)
(*   [t |-> "num", n, d]        the finite number n/d, in lowest terms     *)
(*   [t |-> "str", s]           a string, s a sequence of characters       *)
(* Numbers are exact rationals.  The inputs the specifications draw are    *)
(* chosen so that every tie of round2 falls on a value a double holds      *)
(* exactly (a multiple of 1/8), where the exact result is the double's.    *)
(***************************************************************************)
EXTENDS Integers, Sequences, FiniteSets, TLC

VARIABLES
    store,  \* the document in data/store.json
    now,    \* the server's clock: milliseconds since ClockStart
    tz,     \* the time zone of the server process
    nreq,   \* the number of requests received so far
    req,    \* the request answered last
    resp,   \* the response to it
    prev,   \* the document in data/store.json just before that response's write
    pc,     \* SpecConc: where each handler in flight stands
    rq,     \* SpecConc: the request of each handler in flight
    loc,    \* SpecConc: the `data` of each handler in flight
    arg,    \* SpecParse, SpecNorm: the input of the function under check
    out     \* SpecParse, SpecNorm: the result computed from arg

vars == <<store, now, tz, nreq, req, resp, prev, pc, rq, loc, arg, out>>

----------------------------------------------------------------------------
(* JavaScript values                                                       *)

Undef == [t |-> "undef"]
Null == [t |-> "null"]
NaN == [t |-> "nan"]
Str(s) == [t |-> "str", s |-> s]

RECURSIVE GCD(_, _)
GCD(a, b) == IF b = 0 THEN a ELSE GCD(b, a % b)

Abs(a) == IF a < 0 THEN -a ELSE a

\* the finite number n/d (d > 0), in lowest terms
Num(n, d) ==
    LET g == GCD(Abs(n), d)
    IN  [t |-> "num", n |-> n \div g, d |-> d \div g]

Int2Num(i) == Num(i, 1)

IsNum(v) == v.t = "num"

Add(a, b) == Num(a.n * b.d + b.n * a.d, a.d * b.d)
Mul(a, b) == Num(a.n * b.n, a.d * b.d)
Less(a, b) == a.n * b.d < b.n * a.d
Leq(a, b) == a.n * b.d <= b.n * a.d

\* Math.floor(n/d + 1/2): JavaScript's Math.round rounds a tie towards +Infinity
MathRound(n, d) == (2 * n + d) \div (2 * d)

----------------------------------------------------------------------------
(* Strings: sequences of characters.  A text whose characters no operation *)
(* looks at (a name, "USD") is written as one element, a word without       *)
(* white space at its ends; a space and every character of a number or of   *)
(* an hours text is an element of its own.                                  *)

Digits == {"0", "1", "2", "3", "4", "5", "6", "7", "8", "9"}

DigitVal(c) ==
    CASE c = "0" -> 0 [] c = "1" -> 1 [] c = "2" -> 2 [] c = "3" -> 3 [] c = "4" -> 4
      [] c = "5" -> 5 [] c = "6" -> 6 [] c = "7" -> 7 [] c = "8" -> 8 [] c = "9" -> 9

RECURSIVE DigitsVal(_)
DigitsVal(s) ==
    IF s = <<>> THEN 0
    ELSE 10 * DigitsVal(SubSeq(s, 1, Len(s) - 1)) + DigitVal(s[Len(s)])

RECURSIVE Pow10(_)
Pow10(k) == IF k = 0 THEN 1 ELSE 10 * Pow10(k - 1)

IsDigitSeq(s) == \A i \in 1..Len(s) : s[i] \in Digits

RECURSIVE TrimStart(_)
TrimStart(s) == IF s # <<>> /\ s[1] = " " THEN TrimStart(Tail(s)) ELSE s

RECURSIVE TrimEnd(_)
TrimEnd(s) ==
    IF s # <<>> /\ s[Len(s)] = " " THEN TrimEnd(SubSeq(s, 1, Len(s) - 1)) ELSE s

\* String.prototype.trim
Trim(s) == TrimEnd(TrimStart(s))

\* String.prototype.includes(c)
Includes(s, c) == \E i \in 1..Len(s) : s[i] = c

\* the index of the first c at or after position i, Len(s) + 1 when there is none
RECURSIVE IndexFrom(_, _, _)
IndexFrom(s, c, i) ==
    IF i > Len(s) THEN Len(s) + 1
    ELSE IF s[i] = c THEN i ELSE IndexFrom(s, c, i + 1)

\* String.prototype.split(c): the parts between the occurrences of c
RECURSIVE Split(_, _)
Split(s, c) ==
    LET p == IndexFrom(s, c, 1)
    IN  IF p > Len(s) THEN <<s>>
        ELSE <<SubSeq(s, 1, p - 1)>> \o Split(SubSeq(s, p + 1, Len(s)), c)

\* an unsigned decimal literal: digits, digits. , digits.digits or .digits
UnsignedDecimal(s) ==
    LET p == IndexFrom(s, ".", 1)
        ip == SubSeq(s, 1, p - 1)
        fp == SubSeq(s, p + 1, Len(s))
    IN  IF IsDigitSeq(ip) /\ IsDigitSeq(fp) /\ (ip # <<>> \/ fp # <<>>)
        THEN Num(DigitsVal(ip) * Pow10(Len(fp)) + DigitsVal(fp), Pow10(Len(fp)))
        ELSE NaN

\* a decimal literal with an optional minus sign (no trimming)
Negate(u) == IF IsNum(u) THEN Num(-u.n, u.d) ELSE NaN

SignedDecimal(s) ==
    IF s # <<>> /\ s[1] = "-" THEN Negate(UnsignedDecimal(Tail(s)))
    ELSE UnsignedDecimal(s)

\* Number(string): white space is trimmed, the empty string is 0, the whole
\* rest must be one numeric literal
StringToNumber(s) ==
    LET t == Trim(s)
    IN  IF t = <<>> THEN Int2Num(0) ELSE SignedDecimal(t)

\* Number(value)
ToNumber(v) ==
    CASE v.t = "num" -> v
      [] v.t = "nan" -> NaN
      [] v.t = "null" -> Int2Num(0)
      [] v.t = "undef" -> NaN
      [] v.t = "str" -> StringToNumber(v.s)

\* parseFloat(string): leading white space is skipped, then the longest prefix
\* that is a numeric literal is taken; NaN when there is none
ParseFloatStr(s) ==
    LET t == TrimStart(s)
        ok == {k \in 1..Len(t) : IsNum(SignedDecimal(SubSeq(t, 1, k)))}
    IN  IF ok = {} THEN NaN
        ELSE SignedDecimal(SubSeq(t, 1, CHOOSE k \in ok : \A j \in ok : j <= k))

\* String(number) of the numbers the model draws, as far as parseFloat reads
\* it: parseFloat(String(x)) is x for every finite number x
ParseFloat(v) ==
    CASE v.t = "num" -> v
      [] v.t = "str" -> ParseFloatStr(v.s)
      [] OTHER -> NaN

----------------------------------------------------------------------------
(* Dates.  The string "YYYY-MM-DD" is the value [t |-> "date", y, m, d]; an *)
(* instant is a whole number of hours since 1970-01-01T00:00Z.             *)

DateStr(y, m, d) == [t |-> "date", y |-> y, m |-> m, d |-> d]

\* days from 1970-01-01 to the civil date y-m-d (proleptic Gregorian)
DaysFromCivil(y, m, d) ==
    LET yy == IF m <= 2 THEN y - 1 ELSE y
        era == yy \div 400
        yoe == yy - era * 400
        mp == IF m > 2 THEN m - 3 ELSE m + 9
        doy == (153 * mp + 2) \div 5 + d - 1
        doe == yoe * 365 + yoe \div 4 - yoe \div 100 + doy
    IN  era * 146097 + doe - 719468

\* the civil date of a day number
CivilFromDays(z) ==
    LET zz == z + 719468
        era == zz \div 146097
        doe == zz - era * 146097
        yoe == (doe - doe \div 1460 + doe \div 36524 - doe \div 146096) \div 365
        doy == doe - (365 * yoe + yoe \div 4 - yoe \div 100)
        mp == (5 * doy + 2) \div 153
        d == doy - (153 * mp + 2) \div 5 + 1
        m == IF mp < 10 THEN mp + 3 ELSE mp - 9
        y == yoe + era * 400 + (IF m <= 2 THEN 1 ELSE 0)
    IN  DateStr(y, m, d)

\* 0 = Sunday
DayOfWeek(z) == (z + 4) % 7

IsLeap(y) == (y % 4 = 0 /\ y % 100 # 0) \/ y % 400 = 0

DaysInMonth(y, m) ==
    IF m = 2 THEN (IF IsLeap(y) THEN 29 ELSE 28)
    ELSE IF m \in {4, 6, 9, 11} THEN 30 ELSE 31

IsCalendarDate(v) ==
    /\ v.t = "date"
    /\ v.m \in 1..12
    /\ v.d \in 1..DaysInMonth(v.y, v.m)

\* the n-th Sunday of month m of year y (n >= 1), as a day number
NthSunday(y, m, n) ==
    LET first == DaysFromCivil(y, m, 1)
    IN  first + ((7 - DayOfWeek(first)) % 7) + 7 * (n - 1)

\* the last Sunday of month m of year y, as a day number
LastSunday(y, m) ==
    LET last == DaysFromCivil(y, m, DaysInMonth(y, m))
    IN  last - DayOfWeek(last)

\* The time zones of the process (the TZ of the machine): UTC, Europe/Warsaw
\* (UTC+1, UTC+2 from the last Sunday of March 01:00Z to the last Sunday of
\* October 01:00Z) and America/New_York (UTC-5, UTC-4 from the second Sunday
\* of March 07:00Z to the first Sunday of November 06:00Z).
Zones == {"UTC", "Europe/Warsaw", "America/New_York"}

StdOffset(zone) ==
    CASE zone = "UTC" -> 0 [] zone = "Europe/Warsaw" -> 1 [] zone = "America/New_York" -> -5

DstOffset(zone) ==
    CASE zone = "UTC" -> 0 [] zone = "Europe/Warsaw" -> 2 [] zone = "America/New_York" -> -4

InDst(zone, t) ==
    LET y == CivilFromDays(t \div 24).y
    IN  CASE zone = "UTC" -> FALSE
          [] zone = "Europe/Warsaw" ->
                /\ 24 * LastSunday(y, 3) + 1 <= t
                /\ t < 24 * LastSunday(y, 10) + 1
          [] zone = "America/New_York" ->
                /\ 24 * NthSunday(y, 3, 2) + 7 <= t
                /\ t < 24 * NthSunday(y, 11, 1) + 6

\* the offset of local time from UTC at instant t, in hours
Offset(zone, t) == IF InDst(zone, t) THEN DstOffset(zone) ELSE StdOffset(zone)

\* local wall-clock hours (since 1970-01-01T00:00 local) of instant t
LocalHours(zone, t) == t + Offset(zone, t)

\* Date.prototype.getFullYear / getMonth() + 1 / getDate of instant t
LocalDate(zone, t) == CivilFromDays(LocalHours(zone, t) \div 24)

\* the instant of a local wall-clock time: the earlier one when the wall
\* clock shows it twice, the offset before the change when it skips it
FromLocalHours(zone, lh) ==
    LET cands == {o \in {StdOffset(zone), DstOffset(zone)} : Offset(zone, lh - o) = o}
    IN  IF cands = {} THEN lh - StdOffset(zone)
        ELSE lh - (CHOOSE o \in cands : \A p \in cands : p <= o)

\* new Date("YYYY-MM-DD"): midnight UTC of that date
DateOnlyInstant(v) == 24 * DaysFromCivil(v.y, v.m, v.d)

\* toISOString().slice(0, 10): the UTC date of instant t
IsoDate(t) == CivilFromDays(t \div 24)

\* ToIntegerOrInfinity of a finite number: truncation towards zero
Trunc(q) == IF q.n >= 0 THEN q.n \div q.d ELSE -((-q.n) \div q.d)

\* date.setDate(date.getDate() + days) on instant t: the local day is moved,
\* the local time of day kept
SetDatePlus(zone, t, days) ==
    LET lh == LocalHours(zone, t)
        ld == CivilFromDays(lh \div 24)
        sum == Add(Int2Num(ld.d), days)
        day == DaysFromCivil(ld.y, ld.m, 1) - 1 + Trunc(sum)
    IN  FromLocalHours(zone, 24 * day + (lh % 24))

----------------------------------------------------------------------------
(* server.js: toNumber, round2, parseHoursInput                            *)

\* value is truthy (the operand of || and of ? :)
Truthy(v) ==
    CASE v.t = "num" -> v.n # 0
      [] v.t = "str" -> v.s # <<>>
      [] v.t \in {"date", "month", "iso", "obj"} -> TRUE
      [] OTHER -> FALSE

\* Number.isFinite(num) ? num : fallback
FiniteOr(num, fallback) == IF IsNum(num) THEN num ELSE fallback

toNumber(value, fallback) == FiniteOr(ToNumber(value), fallback)

\* Math.round(x * 100) / 100 of the number x
RoundHundredths(x) ==
    IF IsNum(x)
    THEN Num(MathRound((100 \div GCD(100, x.d)) * x.n, x.d \div GCD(100, x.d)), 100)
    ELSE NaN

round2(value) == RoundHundredths(IF Truthy(value) THEN ToNumber(value) ELSE Int2Num(0))

Zero == Int2Num(0)

\* the H:MM branch, the same text in server.js and in app.js
HoursAndMinutes(h, m) ==
    IF IsNum(h) /\ IsNum(m) /\ Leq(Zero, h) /\ Leq(Zero, m) /\ Less(m, Int2Num(60))
    THEN round2(Add(h, Mul(m, Num(1, 60))))
    ELSE Null

\* const [h, m] = trimmed.split(':').map(Number)
ColonHours(trimmed) ==
    HoursAndMinutes(StringToNumber(Split(trimmed, ":")[1]),
                    StringToNumber(Split(trimmed, ":")[2]))

parseHoursInput(value) ==
    IF value.t = "str"
    THEN LET trimmed == Trim(value.s)
         IN  IF Includes(trimmed, ":") THEN ColonHours(trimmed)
             ELSE round2(toNumber(Str(trimmed), Zero))
    ELSE round2(toNumber(value, Zero))

----------------------------------------------------------------------------
(* server.js: the document, cleanText, normalizeParty, computeDueDate,      *)
(* normalizeInvoice.  An object is a record of JavaScript values in which   *)
(* an absent key holds Undef; [t |-> "obj", f |-> record] is an object held *)
(* as a value.                                                              *)

Obj(f) == [t |-> "obj", f |-> f]
EmptyStr == Str(<<>>)

\* value?.key
Field(v, k) == IF v.t = "obj" THEN v.f[k] ELSE Undef

\* a || b
Or(a, b) == IF Truthy(a) THEN a ELSE b

\* a ?? b
Coalesce(a, b) == IF a.t \in {"undef", "null"} THEN b ELSE a

\* { ...a, ...b } of two objects with the same keys
Spread(a, b) == [k \in DOMAIN a |-> IF b[k] # Undef THEN b[k] ELSE a[k]]

\* a * b and a + b of values used as numbers
MulNumbers(x, y) == IF IsNum(x) /\ IsNum(y) THEN Mul(x, y) ELSE NaN
AddNumbers(x, y) == IF IsNum(x) /\ IsNum(y) THEN Add(x, y) ELSE NaN

JsMul(a, b) == MulNumbers(ToNumber(a), ToNumber(b))
JsAdd(a, b) == AddNumbers(ToNumber(a), ToNumber(b))

DigitChar(i) ==
    CASE i = 0 -> "0" [] i = 1 -> "1" [] i = 2 -> "2" [] i = 3 -> "3" [] i = 4 -> "4"
      [] i = 5 -> "5" [] i = 6 -> "6" [] i = 7 -> "7" [] i = 8 -> "8" [] i = 9 -> "9"

\* Number.prototype.toString of a natural number
RECURSIVE DecString(_)
DecString(i) ==
    IF i < 10 THEN <<DigitChar(i)>> ELSE DecString(i \div 10) \o <<DigitChar(i % 10)>>

NoParty ==
    [name |-> Undef, address |-> Undef, city |-> Undef, taxId |-> Undef,
     nip |-> Undef, account |-> Undef, bank |-> Undef]

DefaultSeller ==
    [name |-> EmptyStr, address |-> EmptyStr, city |-> EmptyStr,
     taxId |-> EmptyStr, account |-> EmptyStr, bank |-> EmptyStr]

DefaultDefaults ==
    [hourlyRate |-> Null,
     vatPercent |-> Int2Num(23),
     currency |-> Str(<<"USD">>),
     invoicePlace |-> EmptyStr,
     itemDescription |-> Str(<<"Consulting services">>),
     itemUnit |-> Str(<<"h">>),
     dueDays |-> Int2Num(14)]

DEFAULT_DATA ==
    [entries |-> [k \in {} |-> Zero],
     clients |-> <<>>,
     invoices |-> <<>>,
     profile |-> [seller |-> DefaultSeller, defaults |-> DefaultDefaults]]

cleanText(value) ==
    CASE value.t = "str" -> Str(Trim(value.s))
      [] value.t \in {"undef", "null"} -> EmptyStr
      [] OTHER -> value

\* the server's clock: Date.now() is ClockStart plus `now` milliseconds; the
\* runs of the model stay within one hour of ClockStart
ClockStart == 24 * DaysFromCivil(2024, 3, 10) + 22

\* Date.now().toString(): the digits of the clock's reading, written as the
\* milliseconds since ClockStart (equal readings give equal texts)
NowString(nowMs) == Str(DecString(nowMs))

\* new Date().toISOString()
NowIso(nowMs) == [t |-> "iso", ms |-> nowMs]

\* new Date(value).getTime() for a string: the instant, or NaN
DateInstant(value) ==
    IF value.t = "date" /\ IsCalendarDate(value) THEN Int2Num(DateOnlyInstant(value))
    ELSE NaN

computeDueDate(issueDate, dueDays, zone) ==
    LET parsed == DateInstant(issueDate)
        base == IF IsNum(parsed) THEN parsed.n ELSE ClockStart
        days == IF IsNum(dueDays) THEN dueDays ELSE Zero
    IN  IsoDate(SetDatePlus(zone, base, days))

normalizeParty(party) ==
    [name |-> cleanText(party.name),
     address |-> cleanText(party.address),
     city |-> cleanText(party.city),
     taxId |-> cleanText(Or(party.taxId, party.nip)),
     account |-> cleanText(party.account),
     bank |-> cleanText(party.bank)]

\* what normalizeInvoice reads of profile.seller: the keys of a party
SellerAsParty(seller) == [k \in DOMAIN NoParty |-> IF k \in DOMAIN seller THEN seller[k] ELSE Undef]

\* manualNetOf without the test for the literal 0: an override of 0 is lost
manualNetOf_NoZero(body, baseNet) ==
    IF Truthy(body.manualNet) THEN toNumber(body.manualNet, baseNet) ELSE Null

\* const manualNet = body.manualNet === 0 || body.manualNet ? ... : null
manualNetOf(body, baseNet) ==
    IF body.manualNet = Zero \/ Truthy(body.manualNet)
    THEN toNumber(body.manualNet, baseNet)
    ELSE Null

\* normalizeInvoice binds its constants one after another; each operator
\* below binds the constants named in its comment and hands them on, so that
\* a constant is computed once, as in the source.

\* month, year: sale.getMonth() + 1 and sale.getFullYear() of the instant sale
invoicePeriod(sale, zone) ==
    [month |-> IF IsNum(sale) THEN Int2Num(LocalDate(zone, sale.n).m) ELSE NaN,
     year |-> IF IsNum(sale) THEN Int2Num(LocalDate(zone, sale.n).y) ELSE NaN]

\* saleDate, dueDate, sale
invoiceDatesFrom(body, issueDate, dueDays, zone) ==
    [issueDate |-> issueDate,
     saleDate |-> Or(cleanText(body.saleDate), issueDate),
     dueDays |-> dueDays,
     dueDate |-> Or(cleanText(body.dueDate), computeDueDate(issueDate, dueDays, zone)),
     period |-> invoicePeriod(
                    DateInstant(Or(Or(cleanText(body.saleDate), issueDate), issueDate)),
                    zone)]

\* issueDate, dueDays
invoiceDates(body, defaults, zone) ==
    invoiceDatesFrom(body,
                     Or(cleanText(body.issueDate), IsoDate(ClockStart)),
                     IF body.dueDays # Undef THEN toNumber(body.dueDays, defaults.dueDays)
                     ELSE defaults.dueDays,
                     zone)

\* gross
invoiceGross(m, vatAmount) ==
    [vatPercent |-> m.vatPercent, rate |-> m.rate, hours |-> m.hours,
     extraNet |-> m.extraNet, manualNet |-> m.manualNet, net |-> m.net,
     totalNet |-> m.totalNet, vatAmount |-> vatAmount,
     gross |-> round2(JsAdd(m.totalNet, vatAmount))]

\* netValue, totalNet, vatAmount
invoiceTotals(m, baseNet, manualNet, totalNet) ==
    invoiceGross([vatPercent |-> m.vatPercent, rate |-> m.rate, hours |-> m.hours,
                  extraNet |-> m.extraNet, manualNet |-> manualNet,
                  net |-> IF manualNet # Null THEN round2(manualNet) ELSE baseNet,
                  totalNet |-> totalNet],
                 round2(JsMul(totalNet, JsMul(m.vatPercent, Num(1, 100)))))

\* totalNet
invoiceNet(body, m, baseNet, manualNet) ==
    invoiceTotals(m, baseNet, manualNet,
                  IF manualNet # Null THEN round2(JsAdd(manualNet, m.extraNet))
                  ELSE round2(JsAdd(baseNet, m.extraNet)))

\* manualNet
invoiceManual(body, m, baseNet) == invoiceNet(body, m, baseNet, manualNetOf(body, baseNet))

\* baseNet that reads the clock: the rate grows with the time of the call
invoiceBase_Clock(body, m) ==
    invoiceManual(body, m, round2(JsMul(m.hours, JsAdd(m.rate, Int2Num(now)))))

\* baseNet
invoiceBase(body, m) ==
    invoiceManual(body, m, round2(JsMul(m.hours, m.rate)))

\* hours: hoursVal === null ? 0 : hoursVal
NullToZero(hoursVal) == IF hoursVal = Null THEN Zero ELSE hoursVal

\* vatPercent, hoursVal, hours, rate, extraNet
invoiceMoney(body, defaults) ==
    invoiceBase(body,
        [vatPercent |-> IF body.vatPercent # Undef
                        THEN toNumber(body.vatPercent, defaults.vatPercent)
                        ELSE defaults.vatPercent,
         hours |-> NullToZero(parseHoursInput(body.hours)),
         rate |-> toNumber(body.rate, Coalesce(defaults.hourlyRate, Zero)),
         extraNet |-> round2(toNumber(Field(body.extra, "net"), Zero))])

\* id: body.id || Date.now().toString()
invoiceId(body, nowMs) == Or(body.id, NowString(nowMs))

\* seller, buyer, item and the object returned
invoiceObject(body, profile, nowMs, d, m) ==
    [id |-> invoiceId(body, nowMs),
     invoiceNumber |-> Or(cleanText(body.invoiceNumber),
                          Str(<<"INV-">> \o DecString(nowMs))),
     issueDate |-> d.issueDate,
     saleDate |-> d.saleDate,
     dueDate |-> d.dueDate,
     dueDays |-> d.dueDays,
     place |-> Or(cleanText(body.place), cleanText(profile.defaults.invoicePlace)),
     vatPercent |-> m.vatPercent,
     rate |-> m.rate,
     hours |-> m.hours,
     net |-> m.net,
     totalNet |-> m.totalNet,
     vatAmount |-> m.vatAmount,
     gross |-> m.gross,
     seller |-> normalizeParty(
                    Spread(SellerAsParty(profile.seller),
                           IF Truthy(body.seller) THEN body.seller.f ELSE NoParty)),
     buyer |-> normalizeParty(IF Truthy(body.buyer) THEN body.buyer.f ELSE NoParty),
     item |-> [desc |-> Or(cleanText(Field(body.item, "desc")),
                           profile.defaults.itemDescription),
               unit |-> Or(cleanText(Field(body.item, "unit")),
                           profile.defaults.itemUnit)],
     extra |-> IF Truthy(m.extraNet) /\ Truthy(cleanText(Field(body.extra, "desc")))
               THEN Obj([desc |-> cleanText(body.extra.f.desc), net |-> m.extraNet])
               ELSE Null,
     manualNet |-> IF m.manualNet # Null THEN m.manualNet ELSE Null,
     currency |-> Or(cleanText(body.currency), profile.defaults.currency),
     month |-> d.period.month,
     year |-> d.period.year,
     createdAt |-> Or(body.createdAt, NowIso(nowMs))]

normalizeInvoice(body, profile, nowMs, zone) ==
    invoiceObject(body, profile, nowMs,
                  invoiceDates(body, profile.defaults, zone),
                  invoiceMoney(body, profile.defaults))

----------------------------------------------------------------------------
(* server.js: readData, writeData and the handlers of the API.  A request   *)
(* is a record [op |-> ..., ...] of what the handler reads of the HTTP      *)
(* request; each handler is a check made before the store is read (the      *)
(* early 400 answers) and a change made to the `data` it has read.          *)

\* JSON.parse(JSON.stringify(value)) of a value: NaN is written as null
JsonValue(v) == IF v.t = "nan" THEN Null ELSE v

JsonInvoice(inv) ==
    [k \in DOMAIN inv |->
        IF k \in {"seller", "buyer", "item"} THEN inv[k] ELSE JsonValue(inv[k])]

\* what writeData leaves in the file: JSON.stringify(data, null, 2)
writeData(data) ==
    [data EXCEPT !.invoices = [i \in 1..Len(data.invoices) |-> JsonInvoice(data.invoices[i])]]

applyDefaults(parsed) ==
    [entries |-> parsed.entries,
     clients |-> parsed.clients,
     invoices |-> parsed.invoices,
     profile |-> [seller |-> Spread(DefaultSeller, parsed.profile.seller),
                  defaults |-> Spread(DefaultDefaults, parsed.profile.defaults)]]

\* readData of a file that holds `file`
readData(file) == applyDefaults(file)

\* readData when readFile or JSON.parse throws: the catch branch returns a
\* copy of DEFAULT_DATA
readDataCaught == DEFAULT_DATA

\* array.findIndex(x => x.id === id): the first index, 0 when there is none
FindIndex(array, id) ==
    LET hits == {i \in 1..Len(array) : array[i].id = id}
    IN  IF hits = {} THEN 0 ELSE CHOOSE i \in hits : \A j \in hits : i <= j

\* array.filter(x => x.id !== id)
RECURSIVE FilterOutId(_, _)
FilterOutId(array, id) ==
    IF array = <<>> THEN <<>>
    ELSE IF array[1].id = id THEN FilterOutId(Tail(array), id)
         ELSE <<array[1]>> \o FilterOutId(Tail(array), id)

\* object[key] = value
SetKey(object, key, value) ==
    [k \in DOMAIN object \cup {key} |-> IF k = key THEN value ELSE object[k]]

\* delete object[key] for every key in keys
DeleteKeys(object, keys) == [k \in DOMAIN object \ keys |-> object[k]]

Ok == "ok"

\* POST /api/entry: the early returns of lines 315-321
PostEntryCheck(r) ==
    IF ~Truthy(r.date) \/ r.date.t \notin {"str", "date"} \/ ~IsNum(DateInstant(r.date))
    THEN "Invalid date"
    ELSE LET numericHours == parseHoursInput(r.hours)
         IN  IF numericHours = Null \/ Less(numericHours, Zero)
             THEN "Invalid hours value"
             ELSE Ok

\* POST /api/entry that stores the new entry alone
PostEntryApply_Alone(data, r) ==
    [data EXCEPT !.entries = [k \in {r.date} |-> parseHoursInput(r.hours)]]

\* POST /api/entry: data.entries[date] = numericHours
PostEntryApply(data, r) ==
    [data EXCEPT !.entries = SetKey(@, r.date, parseHoursInput(r.hours))]

\* DELETE /api/entry
DeleteEntryCheck(r) == IF ~Truthy(r.date) THEN "Missing date" ELSE Ok

\* DELETE /api/entry that empties the ledger
DeleteEntryApply_Clear(data, r) == [data EXCEPT !.entries = DeleteKeys(@, DOMAIN @)]

\* delete data.entries[date]
DeleteEntryApply(data, r) == [data EXCEPT !.entries = DeleteKeys(@, {r.date})]

\* DELETE /api/month: the month is the text "YYYY-MM", [t |-> "month", y, m]
DeleteMonthCheck(r) ==
    IF ~Truthy(r.month) \/ r.month.t # "month" THEN "Month should be YYYY-MM" ELSE Ok

\* the keys whose new Date(key) has that local year and month
MonthKeys(entries, year, mon, zone) ==
    {date \in DOMAIN entries :
        LET d == DateInstant(date)
        IN  /\ IsNum(d)
            /\ LocalDate(zone, d.n).y = year
            /\ LocalDate(zone, d.n).m = mon}

DeleteMonthApply(data, r, zone) ==
    [data EXCEPT !.entries = DeleteKeys(@, MonthKeys(@, r.month.y, r.month.m, zone))]

\* POST /api/clients
PostClientCheck(r) ==
    IF ~Truthy(cleanText(r.body.name)) THEN "Client name is required" ELSE Ok

ClientRecord(body, nowMs) ==
    [id |-> Or(body.id, NowString(nowMs)),
     name |-> cleanText(body.name),
     address |-> cleanText(body.address),
     city |-> cleanText(body.city),
     taxId |-> cleanText(body.taxId)]

PostClientApply(data, r, nowMs) ==
    LET record == ClientRecord(r.body, nowMs)
        idx == FindIndex(data.clients, record.id)
    IN  IF idx > 0
        THEN [data EXCEPT !.clients[idx] = Spread(@, record)]
        ELSE [data EXCEPT !.clients = Append(@, record)]

\* DELETE /api/clients
DeleteClientCheck(r) == IF ~Truthy(r.id) THEN "Missing client id" ELSE Ok

DeleteClientApply(data, r) == [data EXCEPT !.clients = FilterOutId(@, r.id)]

\* PUT /api/profile that replaces a section named in the request by the
\* request's object, without the merge
PutProfileApply_Replace(data, r) ==
    [data EXCEPT !.profile =
        [seller |-> IF Truthy(r.body.seller) THEN r.body.seller.f ELSE data.profile.seller,
         defaults |-> IF Truthy(r.body.defaults) THEN r.body.defaults.f
                      ELSE data.profile.defaults]]

\* PUT /api/profile that also writes the seller's new name into the invoices
PutProfileApply_Live(data, r) ==
    LET seller == Spread(data.profile.seller,
                         IF Truthy(r.body.seller) THEN r.body.seller.f
                         ELSE [k \in DOMAIN DefaultSeller |-> Undef])
    IN  [data EXCEPT
            !.profile = [@ EXCEPT !.seller = seller],
            !.invoices = [i \in 1..Len(@) |->
                             [@[i] EXCEPT !.seller.name = cleanText(seller.name)]]]

\* PUT /api/profile
PutProfileApply(data, r) ==
    [data EXCEPT !.profile =
        [seller |-> Spread(data.profile.seller,
                           IF Truthy(r.body.seller) THEN r.body.seller.f
                           ELSE [k \in DOMAIN DefaultSeller |-> Undef]),
         defaults |-> Spread(data.profile.defaults,
                             IF Truthy(r.body.defaults) THEN r.body.defaults.f
                             ELSE [k \in DOMAIN DefaultDefaults |-> Undef])]]

\* POST /api/invoices that pushes every record, whatever its id
StoreInvoice_Push(invoices, normalized) == Append(invoices, normalized)

\* POST /api/invoices: replace the invoice found by its id, or push
StoreInvoice(invoices, normalized) ==
    LET idx == FindIndex(invoices, normalized.id)
    IN  IF idx > 0 THEN [invoices EXCEPT ![idx] = normalized]
        ELSE Append(invoices, normalized)

PostInvoiceApply(data, r, nowMs, zone) ==
    [data EXCEPT !.invoices = StoreInvoice(@, normalizeInvoice(r.body, data.profile, nowMs, zone))]

\* DELETE /api/invoices
DeleteInvoiceCheck(r) == IF ~Truthy(r.id) THEN "Missing invoice id" ELSE Ok

DeleteInvoiceApply(data, r) == [data EXCEPT !.invoices = FilterOutId(@, r.id)]

\* the answer a handler gives before it reads the store: Ok, or the error of
\* its 400 response
Check(r) ==
    CASE r.op = "POST /api/entry" -> PostEntryCheck(r)
      [] r.op = "DELETE /api/entry" -> DeleteEntryCheck(r)
      [] r.op = "DELETE /api/month" -> DeleteMonthCheck(r)
      [] r.op = "POST /api/clients" -> PostClientCheck(r)
      [] r.op = "DELETE /api/clients" -> DeleteClientCheck(r)
      [] r.op = "DELETE /api/invoices" -> DeleteInvoiceCheck(r)
      [] OTHER -> Ok

\* the `data` a handler passes to writeData, from the `data` readData gave it
Apply(data, r, nowMs, zone) ==
    CASE r.op = "POST /api/entry" -> PostEntryApply(data, r)
      [] r.op = "DELETE /api/entry" -> DeleteEntryApply(data, r)
      [] r.op = "DELETE /api/month" -> DeleteMonthApply(data, r, zone)
      [] r.op = "POST /api/clients" -> PostClientApply(data, r, nowMs)
      [] r.op = "DELETE /api/clients" -> DeleteClientApply(data, r)
      [] r.op = "PUT /api/profile" -> PutProfileApply(data, r)
      [] r.op = "POST /api/invoices" -> PostInvoiceApply(data, r, nowMs, zone)
      [] r.op = "DELETE /api/invoices" -> DeleteInvoiceApply(data, r)

\* the 200 response: at is the clock's reading when the handler changed `data`
Reply200(data, r, nowMs, zone) ==
    CASE r.op \in {"POST /api/entry", "DELETE /api/entry", "DELETE /api/month"} ->
            [status |-> 200, at |-> nowMs, entries |-> data.entries]
      [] r.op \in {"POST /api/clients", "DELETE /api/clients"} ->
            [status |-> 200, at |-> nowMs, clients |-> data.clients]
      [] r.op = "PUT /api/profile" ->
            [status |-> 200, at |-> nowMs, profile |-> data.profile]
      [] r.op = "POST /api/invoices" ->
            [status |-> 200, at |-> nowMs,
             invoiceId |-> invoiceId(r.body, nowMs)]
      [] r.op = "DELETE /api/invoices" ->
            [status |-> 200, at |-> nowMs]

Reply400(error) == [status |-> 400, error |-> error]

----------------------------------------------------------------------------
(* app.js: parseNumber, parseHours                                         *)

parseNumber(value) ==
    LET num == ParseFloat(value)
    IN  IF IsNum(num) THEN num ELSE Null

parseHours(value) ==
    IF value.t = "str"
    THEN LET trimmed == Trim(value.s)
         IN  IF Includes(trimmed, ":") THEN ColonHours(trimmed)
             ELSE LET num == parseNumber(Str(trimmed))
                  IN  IF num = Null THEN Null ELSE round2(num)
    ELSE LET num == parseNumber(value)
         IN  IF num = Null THEN Null ELSE round2(num)

----------------------------------------------------------------------------
(* app.js: sumEntriesForMonth, computeEaster, dateKey, polishHolidays,      *)
(* workingDaysInMonth.  round2 of app.js is the text of round2 of           *)
(* server.js; zone is the time zone of the browser.                         *)

\* total += Number(hours) || 0 over the entries under keys
RECURSIVE SumOver(_, _)
SumOver(entries, keys) ==
    IF keys = {} THEN Zero
    ELSE LET k == CHOOSE k \in keys : TRUE
         IN  Add(Or(ToNumber(entries[k]), Zero), SumOver(entries, keys \ {k}))

\* the entries whose new Date(date) is valid and has the local year and the
\* local month of target
SameLocalMonth(entries, target, zone) ==
    {date \in DOMAIN entries :
        LET d == DateInstant(date)
        IN  /\ IsNum(d)
            /\ LocalDate(zone, d.n).y = target.y
            /\ LocalDate(zone, d.n).m = target.m}

SumForTarget(entries, target, zone) ==
    IF ~IsNum(target) THEN Null
    ELSE round2(SumOver(entries, SameLocalMonth(entries, LocalDate(zone, target.n), zone)))

sumEntriesForMonth(entries, refDate, zone) ==
    IF ~Truthy(refDate) THEN Null
    ELSE SumForTarget(entries, DateInstant(refDate), zone)

\* String(i).padStart(2, '0') of an integer
PadStart2(i) ==
    IF i < 0 THEN <<"-">> \o DecString(-i)
    ELSE IF i < 10 THEN <<"0">> \o DecString(i)
    ELSE DecString(i)

\* hours = Math.floor(totalMinutes / 60), minutes = totalMinutes % 60 (the
\* remainder has the sign of totalMinutes) and the text hours:minutes
HoursMinutesText(totalMinutes) ==
    Str(PadStart2(totalMinutes \div 60) \o <<":">>
        \o PadStart2(IF totalMinutes >= 0 THEN totalMinutes % 60
                      ELSE -((-totalMinutes) % 60)))

\* Math.round(num * 60) of a number
TotalMinutes(num) == MathRound(60 * num.n, num.d)

formatHoursToHHMM(value) == HoursMinutesText(TotalMinutes(Or(ToNumber(value), Zero)))

\* autofillInvoiceHours: form.hours.value after it, from the total
AutofillText(total) == IF total = Null THEN EmptyStr ELSE formatHoursToHHMM(total)

\* saveInvoice: the hours of the payload, from form.hours.value
PayloadHours(text) == IF text # EmptyStr THEN parseHours(text) ELSE Zero

\* new Date(year, monthIndex, day): local midnight of that day, a monthIndex
\* of 12 or a day of 0 carried into the next year or the month before
LocalMidnight(year, monthIndex, day, zone) ==
    FromLocalHours(zone,
        24 * (DaysFromCivil(year + (monthIndex \div 12), (monthIndex % 12) + 1, 1) + day - 1))

EasterFrom(year, h, l, m, zone) ==
    LocalMidnight(year, (h + l - 7 * m + 114) \div 31 - 1,
                  ((h + l - 7 * m + 114) % 31) + 1, zone)

computeEaster(year, zone) ==
    LET a == year % 19
        b == year \div 100
        c == year % 100
        d == b \div 4
        e == b % 4
        f == (b + 8) \div 25
        g == (b - f + 1) \div 3
        h == (19 * a + b - d - g + 15) % 30
        i == c \div 4
        k == c % 4
        l == (32 + 2 * e + 2 * i - h - k) % 7
        m == (a + 11 * h + 22 * l) \div 451
    IN  EasterFrom(year, h, l, m, zone)

dateKey(date) == IsoDate(date)

FixedHolidays(year) ==
    {DateStr(year, 1, 1), DateStr(year, 1, 6), DateStr(year, 5, 1), DateStr(year, 5, 3),
     DateStr(year, 8, 15), DateStr(year, 11, 1), DateStr(year, 11, 11),
     DateStr(year, 12, 24), DateStr(year, 12, 25), DateStr(year, 12, 26)}

MovableHolidays(easterSunday, zone) ==
    {dateKey(SetDatePlus(zone, easterSunday, Int2Num(1))),
     dateKey(SetDatePlus(zone, easterSunday, Int2Num(60)))}

polishHolidays(year, zone) ==
    FixedHolidays(year) \cup MovableHolidays(computeEaster(year, zone), zone)

\* Date.prototype.getDay of instant t: 0 = Sunday
GetDay(zone, t) == DayOfWeek(LocalHours(zone, t) \div 24)

\* the days the loop counts: not a Saturday, not a Sunday, key not a holiday
CountedDays(year, month, holidays, daysInMonth, zone) ==
    {day \in 1..daysInMonth :
        /\ GetDay(zone, LocalMidnight(year, month - 1, day, zone)) \notin {0, 6}
        /\ dateKey(LocalMidnight(year, month - 1, day, zone)) \notin holidays}

workingDaysInMonth(year, month, zone) ==
    Cardinality(CountedDays(year, month, polishHolidays(year, zone),
                            LocalDate(zone, LocalMidnight(year, month, 0, zone)).d, zone))

----------------------------------------------------------------------------
(* Spec: the server answering one request at a time, each handler running   *)
(* from its first line to its response before the next request arrives      *)

MaxRequests == 3
MaxClock == 1

D1 == DateStr(2024, 3, 1)
D2 == DateStr(2024, 4, 1)
Garbage == Str(<<"x">>)

EntryDates == {D1, D2}

\* 1.125 (a tie of round2), -1, "2:20" (2.33), "2:60" and "x"
EntryHours ==
    {Num(9, 8), Num(-1, 1), Str(<<"2", ":", "2", "0">>), Str(<<"2", ":", "6", "0">>), Garbage}

\* the date of the query string: searchParams.get gives a string or null
QueryDates == {D1, Null}

Month(y, m) == [t |-> "month", y |-> y, m |-> m]
QueryMonths == {Month(2024, 3), Garbage, Null}

\* ids a caller supplies: "1" is also what Date.now().toString() gives when
\* the clock reads 1
SuppliedIds == {Str(<<"1">>)}

NoClient ==
    [id |-> Undef, name |-> Undef, address |-> Undef, city |-> Undef, taxId |-> Undef]

ClientBodies ==
    {[NoClient EXCEPT !.id = i, !.name = Str(<<"Acme">>), !.city = Str(<<"Oslo">>)] :
        i \in SuppliedIds}
        \cup {[NoClient EXCEPT !.name = Str(<<"Acme">>)], [NoClient EXCEPT !.name = Str(<<" ">>)]}

QueryIds == SuppliedIds \cup {Null}

NoProfileBody == [seller |-> Undef, defaults |-> Undef]

ProfileBodies ==
    {[NoProfileBody EXCEPT !.seller =
        Obj([[k \in DOMAIN DefaultSeller |-> Undef] EXCEPT !.name = Str(<<"Me">>)])],
     [NoProfileBody EXCEPT !.defaults =
        Obj([[k \in DOMAIN DefaultDefaults |-> Undef] EXCEPT !.vatPercent = Int2Num(8),
                                                              !.hourlyRate = Int2Num(50)])]}

NoBody ==
    [id |-> Undef, invoiceNumber |-> Undef, issueDate |-> Undef, saleDate |-> Undef,
     dueDays |-> Undef, dueDate |-> Undef, vatPercent |-> Undef, hours |-> Undef,
     rate |-> Undef, manualNet |-> Undef, extra |-> Undef, seller |-> Undef,
     buyer |-> Undef, item |-> Undef, place |-> Undef, currency |-> Undef,
     createdAt |-> Undef]

InvoiceBodies ==
    {[NoBody EXCEPT !.id = i, !.hours = h, !.rate = Int2Num(50)] :
        i \in SuppliedIds, h \in {Int2Num(8), Str(<<"2", ":", "3", "0">>)}}
        \cup {[NoBody EXCEPT !.hours = Int2Num(8), !.rate = Int2Num(50)]}

Init ==
    /\ store = DEFAULT_DATA
    /\ now = 0
    /\ tz \in Zones
    /\ nreq = 0
    /\ req = Undef
    /\ resp = Undef
    /\ prev = DEFAULT_DATA
    /\ pc = <<>>
    /\ rq = <<>>
    /\ loc = <<>>
    /\ arg = Undef
    /\ out = Undef

\* the response to request r and what the file holds after it: error is the
\* answer of the handler's checks, data what it passes to writeData
Respond(r, error, data) ==
    /\ nreq' = nreq + 1
    /\ req' = r
    /\ prev' = store
    /\ IF error # Ok
       THEN /\ resp' = Reply400(error)
            /\ store' = store
       ELSE /\ store' = writeData(data)
            /\ resp' = Reply200(data, r, now, tz)
    /\ UNCHANGED <<now, tz, pc, rq, loc, arg, out>>

\* the whole handler of request r: the early 400 answer, or readData, the
\* change, writeData and the 200 answer
Serve(r) == Respond(r, Check(r), Apply(readData(store), r, now, tz))

\* the bodies of POST /api/entry: every date with 1.125 and with "2:20", one
\* date with each of the other hours, and two bodies whose date is no date
EntryBodies ==
    [date : EntryDates, hours : {Num(9, 8), Str(<<"2", ":", "2", "0">>)}]
        \cup [date : {D1}, hours : EntryHours]
        \cup {[date |-> Garbage, hours |-> Num(9, 8)], [date |-> Undef, hours |-> Num(9, 8)]}

PostEntry ==
    \E body \in EntryBodies :
        /\ nreq < MaxRequests
        /\ Serve([op |-> "POST /api/entry", date |-> body.date, hours |-> body.hours])

DeleteEntry ==
    \E date \in QueryDates :
        /\ nreq < MaxRequests
        /\ Serve([op |-> "DELETE /api/entry", date |-> date])

DeleteMonth ==
    \E month \in QueryMonths :
        /\ nreq < MaxRequests
        /\ Serve([op |-> "DELETE /api/month", month |-> month])

PostClient ==
    \E body \in ClientBodies :
        /\ nreq < MaxRequests
        /\ Serve([op |-> "POST /api/clients", body |-> body])

DeleteClient ==
    \E id \in QueryIds :
        /\ nreq < MaxRequests
        /\ Serve([op |-> "DELETE /api/clients", id |-> id])

PutProfile ==
    \E body \in ProfileBodies :
        /\ nreq < MaxRequests
        /\ Serve([op |-> "PUT /api/profile", body |-> body])

PostInvoice ==
    \E body \in InvoiceBodies :
        /\ nreq < MaxRequests
        /\ Serve([op |-> "POST /api/invoices", body |-> body])

DeleteInvoice ==
    \E id \in QueryIds :
        /\ nreq < MaxRequests
        /\ Serve([op |-> "DELETE /api/invoices", id |-> id])

\* a millisecond passes
Tick ==
    /\ now < MaxClock
    /\ now' = now + 1
    /\ UNCHANGED <<store, tz, nreq, req, resp, prev, pc, rq, loc, arg, out>>

Next ==
    \/ PostEntry
    \/ DeleteEntry
    \/ DeleteMonth
    \/ PostClient
    \/ DeleteClient
    \/ PutProfile
    \/ PostInvoice
    \/ DeleteInvoice
    \/ Tick

Spec == Init /\ [][Next]_vars

----------------------------------------------------------------------------
(* SpecFault: the server of Spec on a machine where the read of the store   *)
(* file may fail (the file cannot be opened, or what it holds does not       *)
(* parse) while a POST /api/entry is handled: readData then takes its catch  *)
(* branch, and the write that follows succeeds.                              *)

\* POST /api/entry whose readData catches an error
PostEntryReadFails ==
    \E body \in EntryBodies :
        /\ nreq < MaxRequests
        /\ Respond([op |-> "POST /api/entry", date |-> body.date, hours |-> body.hours,
                    readFails |-> TRUE],
                   PostEntryCheck([date |-> body.date, hours |-> body.hours]),
                   PostEntryApply(readDataCaught, [date |-> body.date, hours |-> body.hours]))

NextFault == Next \/ PostEntryReadFails

SpecFault == Init /\ [][NextFault]_vars

----------------------------------------------------------------------------
(* SpecConc: the server with several requests in flight.  A handler runs to *)
(* its first await and is resumed later: between the moment readData has    *)
(* read the file and the moment writeData has written it, the handlers of   *)
(* other requests run.  pc[p] is where handler p stands, rq[p] its request   *)
(* and the clock's reading it uses, loc[p] the `data` it holds.             *)

MaxInFlight == 2

Handlers == 1..MaxInFlight

ConcRequests ==
    {[op |-> "POST /api/entry", date |-> D1, hours |-> Num(9, 8)],
     [op |-> "POST /api/entry", date |-> D2, hours |-> Str(<<"2", ":", "2", "0">>)],
     [op |-> "POST /api/entry", date |-> D1, hours |-> Num(-1, 1)],
     [op |-> "DELETE /api/entry", date |-> D1],
     [op |-> "DELETE /api/entry", date |-> Null],
     [op |-> "DELETE /api/month", month |-> Month(2024, 4)],
     [op |-> "POST /api/clients", body |-> [NoClient EXCEPT !.name = Str(<<"Acme">>)]],
     [op |-> "DELETE /api/clients", id |-> Str(<<"1">>)],
     [op |-> "PUT /api/profile",
      body |-> [NoProfileBody EXCEPT !.seller =
                  Obj([[k \in DOMAIN DefaultSeller |-> Undef] EXCEPT !.name = Str(<<"Me">>)])]],
     [op |-> "POST /api/invoices",
      body |-> [NoBody EXCEPT !.hours = Int2Num(8), !.rate = Int2Num(50)]],
     [op |-> "DELETE /api/invoices", id |-> Str(<<"1">>)]}

InitConc ==
    /\ store = DEFAULT_DATA
    /\ now = 0
    /\ tz \in Zones
    /\ nreq = 0
    /\ req = Undef
    /\ resp = Undef
    /\ prev = DEFAULT_DATA
    /\ pc = [p \in Handlers |-> "idle"]
    /\ rq = [p \in Handlers |-> Undef]
    /\ loc = [p \in Handlers |-> Undef]
    /\ arg = Undef
    /\ out = Undef

\* handler p takes request r and runs to `await readData()`: error is the
\* answer of its checks, a 400 response ends it at once
Start(p, r, error) ==
    /\ nreq < MaxRequests
    /\ nreq' = nreq + 1
    /\ IF error # Ok
       THEN /\ req' = r
            /\ resp' = Reply400(error)
            /\ prev' = store
            /\ UNCHANGED <<pc, rq>>
       ELSE /\ pc' = [pc EXCEPT ![p] = "read"]
            /\ rq' = [rq EXCEPT ![p] = [r |-> r, at |-> now]]
            /\ UNCHANGED <<req, resp, prev>>
    /\ UNCHANGED <<store, now, tz, loc, arg, out>>

Receive ==
    \E p \in Handlers, r \in ConcRequests :
        /\ pc[p] = "idle"
        /\ Start(p, r, Check(r))

\* the clock's reading the change uses: POST /api/clients has read it before
\* readData, POST /api/invoices reads it after
ClockOf(q) == IF q.r.op = "POST /api/invoices" THEN now ELSE q.at

\* readData has read the file: handler p changes the `data` it got and runs
\* to `await writeData(data)`
ReadStore ==
    \E p \in Handlers :
        /\ pc[p] = "read"
        /\ pc' = [pc EXCEPT ![p] = "write"]
        /\ rq' = [rq EXCEPT ![p].at = ClockOf(rq[p])]
        /\ loc' = [loc EXCEPT ![p] = Apply(readData(store), rq[p].r, ClockOf(rq[p]), tz)]
        /\ UNCHANGED <<store, now, tz, nreq, req, resp, prev, arg, out>>

\* writeData has written the file: handler p answers 200
WriteStore ==
    \E p \in Handlers :
        /\ pc[p] = "write"
        /\ prev' = store
        /\ store' = writeData(loc[p])
        /\ req' = rq[p].r
        /\ resp' = Reply200(loc[p], rq[p].r, rq[p].at, tz)
        /\ pc' = [pc EXCEPT ![p] = "idle"]
        /\ rq' = [rq EXCEPT ![p] = Undef]
        /\ loc' = [loc EXCEPT ![p] = Undef]
        /\ UNCHANGED <<now, tz, nreq, arg, out>>

NextConc ==
    \/ Receive
    \/ ReadStore
    \/ WriteStore
    \/ Tick

SpecConc == InitConc /\ [][NextConc]_vars

\* C1: every mutation that answers 200 is one atomic read-modify-write: what
\* the file holds after its write is its change applied to what the file
\* held just before that write, so the write of no other request is lost
\* (two upsertEntry requests for two dates leave both entries stored).
C1_AtomicReadModifyWrite ==
    (resp # Undef /\ resp.status = 200) =>
        store = writeData(Apply(readData(prev), req, resp.at, tz))

----------------------------------------------------------------------------
(* SpecParse: the two hours parsers, each applied to one drawn input       *)

MaxStrLen == 4
MaxEighths == 12

Alphabet == {"0", "1", "2", "3", "5", "6", ".", "-", ":", "x", " "}

Strings == UNION {[1..k -> Alphabet] : k \in 0..MaxStrLen}

\* JSON numbers: the multiples of 1/8 up to MaxEighths/8, and two values
\* next to a tie
NumberInputs ==
    {Num(k, 8) : k \in -MaxEighths..MaxEighths}
        \cup {Num(124, 1000), Num(-124, 1000), Num(126, 1000), Num(-126, 1000)}

HoursInputs == {Str(s) : s \in Strings} \cup NumberInputs \cup {Undef, Null}

NoResult == [by |-> "none"]

\* the variables a specification of one function leaves alone
NoServer ==
    /\ store = Undef
    /\ now = 0
    /\ nreq = 0
    /\ req = Undef
    /\ resp = Undef
    /\ prev = Undef
    /\ pc = <<>>
    /\ rq = <<>>
    /\ loc = <<>>

ServerVars == <<store, now, tz, nreq, req, resp, prev, pc, rq, loc>>

InitParse ==
    /\ NoServer
    /\ tz = "UTC"
    /\ arg \in HoursInputs
    /\ out = NoResult

\* server.js parseHoursInput(arg)
ParseServer ==
    /\ out = NoResult
    /\ out' = [by |-> "server", v |-> parseHoursInput(arg)]
    /\ UNCHANGED <<arg, ServerVars>>

\* app.js parseHours(arg)
ParseClient ==
    /\ out = NoResult
    /\ out' = [by |-> "client", v |-> parseHours(arg)]
    /\ UNCHANGED <<arg, ServerVars>>

NextParse == ParseServer \/ ParseClient

SpecParse == InitParse /\ [][NextParse]_vars

Parsed == out # NoResult /\ out.by \in {"server", "client"}

\* the input as the text the parser reads, when it is a string
HasColon(v) == v.t = "str" /\ Includes(Trim(v.s), ":")

\* the text is one decimal literal
IsDecimalText(s) == IsNum(SignedDecimal(Trim(s)))

\* the input denotes a finite decimal number
IsFiniteDecimal(v) ==
    CASE v.t = "num" -> TRUE
      [] v.t = "str" -> IsDecimalText(v.s)
      [] OTHER -> FALSE

\* C8: for an input without a colon that is not a finite decimal number, the
\* server parser and the client parser both return 'invalid' (null), never 0.
C8_NonNumericIsInvalid ==
    (Parsed /\ ~HasColon(arg) /\ ~IsFiniteDecimal(arg)) => out.v = Null

\* the text has the form H:MM, H and MM non-negative integers, MM < 60
IsHMM(s) ==
    LET parts == Split(Trim(s), ":")
    IN  /\ Len(parts) = 2
        /\ parts[1] # <<>> /\ IsDigitSeq(parts[1])
        /\ parts[2] # <<>> /\ IsDigitSeq(parts[2])
        /\ DigitsVal(parts[2]) < 60

HMMValue(s) ==
    LET parts == Split(Trim(s), ":")
    IN  Num(MathRound(100 * (60 * DigitsVal(parts[1]) + DigitsVal(parts[2])), 60), 100)

\* C9: for an input with a colon, the parser returns round2(H + MM/60) exactly
\* when the input has the form H:MM with H, MM non-negative integers and
\* MM < 60, and 'invalid' for every other colon input.
C9_ColonFormExact ==
    (Parsed /\ HasColon(arg)) =>
        out.v = (IF IsHMM(arg.s) THEN HMMValue(arg.s) ELSE Null)

\* x rounded to hundredths, a tie going away from zero
RoundHalfAway(x) ==
    IF x.n >= 0 THEN Num((200 * x.n + x.d) \div (2 * x.d), 100)
    ELSE Num(-((200 * (-x.n) + x.d) \div (2 * x.d)), 100)

\* C10: the value the parser returns for a number is that number rounded to
\* two decimals with ties away from zero, for negative numbers too.
C10_RoundHalfAwayFromZero ==
    (Parsed /\ arg.t = "num") => out.v = RoundHalfAway(arg)

----------------------------------------------------------------------------
(* SpecNorm: normalizeInvoice applied to one drawn request body, under one  *)
(* drawn profile and time zone                                              *)

NormHours ==
    {Undef, Int2Num(8), Num(5, 2), Num(-1, 1),
     Str(<<"8", ":", "0", "0">>), Str(<<"2", ":", "3", "0">>), Str(<<"x">>)}

NormRates == {Undef, Int2Num(50), Num(1, 2), Num(25, 2)}

NormManualNets == {Undef, Null, Zero, Int2Num(100), Num(1, 8), Num(-1, 8)}

NormExtras ==
    {Undef, Null,
     Obj([desc |-> Str(<<"E">>), net |-> Int2Num(10)]),
     Obj([desc |-> Str(<<"E">>), net |-> Num(1, 8)]),
     Obj([desc |-> Str(<<"E">>), net |-> Zero]),
     Obj([desc |-> Str(<<" ">>), net |-> Int2Num(10)]),
     Obj([desc |-> Undef, net |-> Int2Num(10)])}

NormVats == {Undef, Int2Num(23), Zero, Num(15, 2)}

NormIssueDates == {Undef, DateStr(2024, 3, 1)}

\* bodies that differ in their dates: an issue date before a change of the
\* clocks in March and in October, a sale date in the month before, due days
\* of 0 and of 31, a due date
NormDateBodies ==
    {[NoBody EXCEPT !.hours = Int2Num(8), !.issueDate = i, !.saleDate = s,
                    !.dueDays = n, !.dueDate = d] :
        i \in {Undef, DateStr(2024, 3, 1), DateStr(2024, 10, 20)},
        s \in {Undef, DateStr(2024, 2, 29), DateStr(2024, 12, 31)},
        n \in {Undef, Zero, Int2Num(31)},
        d \in {Undef, DateStr(2024, 12, 31)}}

NormBodies ==
    {[NoBody EXCEPT !.hours = h, !.rate = r, !.manualNet = mn, !.extra = e,
                    !.vatPercent = v, !.issueDate = i] :
        h \in NormHours, r \in NormRates, mn \in NormManualNets, e \in NormExtras,
        v \in NormVats, i \in NormIssueDates}
        \cup NormDateBodies

NormProfiles ==
    {DEFAULT_DATA.profile,
     [DEFAULT_DATA.profile EXCEPT !.defaults.hourlyRate = Int2Num(100),
                                  !.defaults.vatPercent = Null]}

InitNorm ==
    /\ NoServer
    /\ tz \in Zones
    /\ arg \in [body : NormBodies, profile : NormProfiles]
    /\ out = NoResult

\* server.js normalizeInvoice(arg.body, arg.profile)
Normalize ==
    /\ out = NoResult
    /\ out' = [by |-> "normalizeInvoice", v |-> normalizeInvoice(arg.body, arg.profile, now, tz)]
    /\ UNCHANGED <<arg, ServerVars>>

NextNorm == Normalize

SpecNorm == InitNorm /\ [][NextNorm]_vars

Normalized == out # NoResult /\ out.by = "normalizeInvoice"

\* C2: an invoice record is re-derivable from its own stored fields: totalNet
\* is round2 of (the stored manualNet if not null, else round2(hours * rate))
\* plus (the stored extra's net if extra is not null, else 0), vatAmount is
\* round2(totalNet * vatPercent / 100) and gross is totalNet + vatAmount.
C2_MoneyRederivable ==
    Normalized =>
        LET r == out.v
            base == IF r.manualNet # Null THEN r.manualNet
                    ELSE round2(JsMul(r.hours, r.rate))
            ext == IF r.extra # Null THEN r.extra.f.net ELSE Zero
        IN  /\ r.totalNet = round2(JsAdd(base, ext))
            /\ r.vatAmount = round2(JsMul(JsMul(r.totalNet, r.vatPercent), Num(1, 100)))
            /\ r.gross = JsAdd(r.totalNet, r.vatAmount)

\* C3: when the raw input supplies manualNet as a number, 0 included, the
\* record has net = round2(manualNet), totalNet = round2(manualNet + extraNet)
\* and a non-null manualNet (hours * rate is ignored); when it supplies none,
\* net = round2(hours * rate) and manualNet is null.
C3_ManualNetOverride ==
    Normalized =>
        LET r == out.v
            m == arg.body.manualNet
            extraNet == round2(toNumber(Field(arg.body.extra, "net"), Zero))
        IN  IF IsNum(m)
            THEN /\ r.manualNet = m
                 /\ r.net = round2(m)
                 /\ r.totalNet = round2(Add(m, extraNet))
            ELSE /\ r.manualNet = Null
                 /\ r.net = round2(Mul(r.hours, r.rate))
                 /\ r.totalNet = round2(Add(r.net, extraNet))

\* an override of zero on an invoice whose hours * rate is not zero
C3_Witness ==
    /\ Normalized
    /\ arg.body.manualNet = Zero
    /\ Mul(out.v.hours, out.v.rate) # Zero
    /\ out.v.net = Zero
    /\ out.v.manualNet = Zero

\* C11: the callers of the hours parser reject a negative result: no invoice
\* that normalizeInvoice produces carries hours below 0.
C11_NoNegativeHours ==
    Normalized => (IsNum(out.v.hours) /\ out.v.hours.n >= 0)

\* the calendar date `days` days after the calendar date `date`
DatePlusDays(date, days) == CivilFromDays(DaysFromCivil(date.y, date.m, date.d) + days)

\* C17: dueDays of the record is the supplied value, or else the dueDays of
\* the profile's defaults; when no dueDate is supplied, dueDate is the
\* calendar date dueDays days after issueDate, for every valid issueDate,
\* every whole dueDays >= 0 and every time zone of the server; a supplied
\* dueDate is kept as given.
C17_DueDate ==
    Normalized =>
        /\ out.v.dueDays = IF IsNum(arg.body.dueDays) THEN arg.body.dueDays
                           ELSE arg.profile.defaults.dueDays
        /\ arg.body.dueDate # Undef => out.v.dueDate = arg.body.dueDate
        /\ ( /\ arg.body.dueDate = Undef
             /\ IsCalendarDate(out.v.issueDate)
             /\ IsNum(out.v.dueDays) /\ out.v.dueDays.d = 1 /\ out.v.dueDays.n >= 0 )
           => out.v.dueDate = DatePlusDays(out.v.issueDate, out.v.dueDays.n)

\* C18: month and year of the record are the calendar month (1..12) and the
\* year of its saleDate, which is the issueDate when no saleDate is supplied,
\* whatever the time zone of the server: a saleDate of 2024-03-01 gives
\* month 3 and year 2024.
C18_PeriodOfSaleDate ==
    Normalized =>
        /\ out.v.saleDate = IF arg.body.saleDate # Undef THEN arg.body.saleDate
                            ELSE out.v.issueDate
        /\ IsCalendarDate(out.v.saleDate) =>
               /\ out.v.month = Int2Num(out.v.saleDate.m)
               /\ out.v.year = Int2Num(out.v.saleDate.y)

----------------------------------------------------------------------------
(* SpecAgain: normalizeInvoice called twice with one drawn body and one     *)
(* drawn profile, the clock advancing before, between and after the calls   *)

AgainBodies ==
    {[NoBody EXCEPT !.hours = h, !.rate = r, !.manualNet = mn, !.extra = e,
                    !.vatPercent = v] :
        h \in NormHours, r \in NormRates, mn \in {Undef, Zero, Num(1, 8)},
        e \in {Undef, Obj([desc |-> Str(<<"E">>), net |-> Num(1, 8)])},
        v \in {Undef, Num(15, 2)}}

InitAgain ==
    /\ NoServer
    /\ tz \in Zones
    /\ arg \in [body : AgainBodies, profile : NormProfiles]
    /\ out = NoResult

\* the first call of normalizeInvoice(arg.body, arg.profile)
CallOnce ==
    /\ out = NoResult
    /\ out' = [by |-> "once", v |-> normalizeInvoice(arg.body, arg.profile, now, tz)]
    /\ UNCHANGED <<arg, ServerVars>>

\* the second call, with the same body and the same profile
CallAgain ==
    /\ out.by = "once"
    /\ out' = [by |-> "twice", v |-> out.v,
               w |-> normalizeInvoice(arg.body, arg.profile, now, tz)]
    /\ UNCHANGED <<arg, ServerVars>>

NextAgain == CallOnce \/ CallAgain \/ Tick

SpecAgain == InitAgain /\ [][NextAgain]_vars

CalledTwice == out # NoResult /\ out.by = "twice"

MoneyFields ==
    {"hours", "rate", "net", "totalNet", "vatPercent", "vatAmount", "gross", "manualNet"}

\* C20: normalizeInvoice is deterministic on money: two calls with the same
\* body and the same profile, made at any two times, give the same hours,
\* rate, net, totalNet, vatPercent, vatAmount, gross and manualNet.
C20_MoneyDeterministic ==
    CalledTwice => \A k \in MoneyFields : out.v[k] = out.w[k]

\* two calls at different times, the net computed from hours * rate
C20_Witness ==
    /\ CalledTwice
    /\ out.v.createdAt # out.w.createdAt
    /\ out.v.id # out.w.id
    /\ out.v.manualNet = Null
    /\ out.v.gross # Zero
    /\ out.w.gross = out.v.gross

----------------------------------------------------------------------------
(* SpecClient: the calendar functions of app.js, each applied to one drawn  *)
(* input in one drawn time zone of the browser                              *)

Ledger(h1, h2, h3) ==
    [d \in {DateStr(2024, 3, 1), DateStr(2024, 3, 15), DateStr(2024, 4, 1)} |->
        CASE d.m = 4 -> h3 [] d.d = 1 -> h1 [] OTHER -> h2]

\* state.entries: the empty ledger, 4 + 3.5 in March and 8 in April 2024,
\* a ledger whose March sum 1.125 + 0.25 is not a number of hundredths, and
\* one whose March sum 4 + 3.51 is not a whole number of minutes
ClientLedgers ==
    {[d \in {} |-> Zero],
     Ledger(Int2Num(4), Num(7, 2), Int2Num(8)),
     Ledger(Num(9, 8), Num(1, 4), Zero),
     Ledger(Int2Num(4), Num(351, 100), Int2Num(8))}

\* the value of the date input: empty, a date, or a text that is no date
RefDates ==
    {EmptyStr, Garbage, DateStr(2024, 2, 30), DateStr(2024, 3, 1), DateStr(2024, 3, 10),
     DateStr(2024, 3, 31), DateStr(2024, 4, 1), DateStr(2025, 3, 10)}

Years == 2023..2026

Months == 1..12

InitClient ==
    /\ NoServer
    /\ tz \in Zones
    /\ arg \in [entries : ClientLedgers, refDate : RefDates, year : Years, month : Months]
    /\ out = NoResult

\* app.js sumEntriesForMonth(arg.refDate) with state.entries = arg.entries
SumEntries ==
    /\ out = NoResult
    /\ out' = [by |-> "sumEntriesForMonth",
               v |-> sumEntriesForMonth(arg.entries, arg.refDate, tz)]
    /\ UNCHANGED <<arg, ServerVars>>

\* app.js polishHolidays(arg.year)
Holidays ==
    /\ out = NoResult
    /\ out' = [by |-> "polishHolidays", v |-> polishHolidays(arg.year, tz)]
    /\ UNCHANGED <<arg, ServerVars>>

\* app.js workingDaysInMonth(arg.year, arg.month)
WorkingDays ==
    /\ out = NoResult
    /\ out' = [by |-> "workingDaysInMonth", v |-> workingDaysInMonth(arg.year, arg.month, tz)]
    /\ UNCHANGED <<arg, ServerVars>>

\* app.js autofillInvoiceHours with the reference date arg.refDate, then the
\* hours saveInvoice puts into its payload
AutofillHours ==
    /\ out = NoResult
    /\ out' = [by |-> "autofillInvoiceHours",
               total |-> sumEntriesForMonth(arg.entries, arg.refDate, tz),
               text |-> AutofillText(sumEntriesForMonth(arg.entries, arg.refDate, tz)),
               v |-> PayloadHours(
                         AutofillText(sumEntriesForMonth(arg.entries, arg.refDate, tz)))]
    /\ UNCHANGED <<arg, ServerVars>>

NextClient == SumEntries \/ Holidays \/ WorkingDays \/ AutofillHours

SpecClient == InitClient /\ [][NextClient]_vars

Returned(fn) == out # NoResult /\ out.by = fn

\* the entries of a ledger dated in the calendar month of ref
EntriesOfMonth(entries, ref) ==
    {d \in DOMAIN entries : d.t = "date" /\ d.y = ref.y /\ d.m = ref.m}

\* C13: sumEntriesForMonth(refDate) returns null exactly when refDate is
\* absent or is not a date; otherwise it returns round2 of the sum of the
\* hours of exactly the entries dated in the calendar year and month of
\* refDate (0 when there are none), whatever the time zone: 4 + 3.5 in March
\* and 8 in April 2024 give 7.5 for the reference date 2024-03-10.
C13_SumForMonth ==
    Returned("sumEntriesForMonth") =>
        IF arg.refDate.t = "date" /\ IsCalendarDate(arg.refDate)
        THEN out.v = round2(SumOver(arg.entries, EntriesOfMonth(arg.entries, arg.refDate)))
        ELSE out.v = Null

\* Gregorian computus: the civil date of Easter Sunday, as a day number
EasterDay(year) ==
    LET a == year % 19
        b == year \div 100
        c == year % 100
        h == (19 * a + b - (b \div 4) - ((b - ((b + 8) \div 25) + 1) \div 3) + 15) % 30
        l == (32 + 2 * (b % 4) + 2 * (c \div 4) - h - (c % 4)) % 7
        m == (a + 11 * h + 22 * l) \div 451
        n == h + l - 7 * m + 114
    IN  DaysFromCivil(year, n \div 31, (n % 31) + 1)

\* the holiday set of a year: the ten fixed dates, Easter Sunday + 1 day and
\* Easter Sunday + 60 days
HolidaySet(year) ==
    {DateStr(year, 1, 1), DateStr(year, 1, 6), DateStr(year, 5, 1), DateStr(year, 5, 3),
     DateStr(year, 8, 15), DateStr(year, 11, 1), DateStr(year, 11, 11),
     DateStr(year, 12, 24), DateStr(year, 12, 25), DateStr(year, 12, 26),
     CivilFromDays(EasterDay(year) + 1), CivilFromDays(EasterDay(year) + 60)}

\* C15: workingDaysInMonth(year, month) is the number of calendar days of
\* that month that are neither a Saturday, nor a Sunday, nor in the holiday
\* set of that year, the same in every time zone; for (2024, 12) it is 19.
C15_WorkingDays ==
    Returned("workingDaysInMonth") =>
        /\ out.v = Cardinality(
               {d \in 1..DaysInMonth(arg.year, arg.month) :
                   /\ DayOfWeek(DaysFromCivil(arg.year, arg.month, d)) \notin {0, 6}
                   /\ DateStr(arg.year, arg.month, d) \notin HolidaySet(arg.year)})
        /\ (arg.year = 2024 /\ arg.month = 12) => out.v = 19

\* C16: polishHolidays(year) is exactly the ten fixed dates of that year plus
\* Easter Sunday + 1 day and Easter Sunday + 60 days, whatever the time zone;
\* Easter Sunday of 2024 is March 31 and the set of 2024 has 2024-04-01 and
\* 2024-05-30.
C16_HolidaySet ==
    Returned("polishHolidays") =>
        /\ out.v = HolidaySet(arg.year)
        /\ arg.year = 2024 =>
               /\ CivilFromDays(EasterDay(2024)) = DateStr(2024, 3, 31)
               /\ DateStr(2024, 4, 1) \in out.v
               /\ DateStr(2024, 5, 30) \in out.v

\* C21: the auto-filled invoice hours are the sum of the logged hours of the
\* invoice month: sumEntriesForMonth(refDate), written by formatHoursToHHMM
\* and read back by parseHours as saveInvoice does, is again
\* sumEntriesForMonth(refDate), for every ledger.
C21_AutofillKeepsSum ==
    (Returned("autofillInvoiceHours") /\ out.total # Null) => out.v = out.total

----------------------------------------------------------------------------
(* Claims about the API, checked under Spec.  req is the last request, resp *)
(* its response, prev what the file held before it and store what it holds  *)
(* after it.                                                                *)

Answered(op) == nreq > 0 /\ req.op = op
Succeeded(op) == Answered(op) /\ resp.status = 200

Ids(array) == {array[i].id : i \in 1..Len(array)}
DistinctIds(array) == \A i, j \in 1..Len(array) : array[i].id = array[j].id => i = j

\* C4: an invoice upsert without an id mints an id that no stored invoice
\* has: the list grows by one record, no stored invoice is overwritten and
\* the ids stay pairwise distinct.
C4_MintedIdIsFresh ==
    (Succeeded("POST /api/invoices") /\ req.body.id = Undef) =>
        /\ resp.invoiceId \notin Ids(prev.invoices)
        /\ Len(store.invoices) = Len(prev.invoices) + 1
        /\ SubSeq(store.invoices, 1, Len(prev.invoices)) = prev.invoices
        /\ DistinctIds(store.invoices)

ValidHours(hours) ==
    \/ hours.t = "num" /\ hours.n >= 0
    \/ hours.t = "str" /\ ~HasColon(hours) /\ IsDecimalText(hours.s)
                       /\ SignedDecimal(Trim(hours.s)).n >= 0
    \/ hours.t = "str" /\ HasColon(hours) /\ IsHMM(hours.s)

\* the request is one the claim calls invalid
FailsValidation(r) ==
    CASE r.op = "POST /api/entry" -> ~IsCalendarDate(r.date) \/ ~ValidHours(r.hours)
      [] r.op = "DELETE /api/month" -> r.month.t # "month"
      [] r.op = "POST /api/clients" ->
            r.body.name.t # "str" \/ Trim(r.body.name.s) = <<>>
      [] r.op \in {"DELETE /api/entry"} -> r.date = Null
      [] r.op \in {"DELETE /api/clients", "DELETE /api/invoices"} -> r.id = Null
      [] OTHER -> FALSE

\* C6: a request that fails validation (an entry whose date does not parse
\* or whose hours are negative or invalid, a month not of the form YYYY-MM,
\* a client without a name, a delete without its key) is answered with an
\* error and the file holds after it what it held before.
C6_InvalidRequestWritesNothing ==
    (nreq > 0 /\ FailsValidation(req)) => (resp.status = 400 /\ store = prev)

\* the hours a valid request asks to store, rounded to two decimals
HoursValue(hours) ==
    IF hours.t = "num" THEN RoundHalfAway(hours)
    ELSE IF HasColon(hours) THEN HMMValue(hours.s)
    ELSE RoundHalfAway(SignedDecimal(Trim(hours.s)))

InMonth(date, month) == date.t = "date" /\ date.y = month.y /\ date.m = month.m

\* C12: clearMonth(YYYY-MM) removes exactly the entries whose date has that
\* year and that month, in every time zone of the server: afterwards no entry
\* of the month remains and every other entry is present with its hours.
C12_ClearMonthExact ==
    Succeeded("DELETE /api/month") =>
        /\ DOMAIN store.entries = {d \in DOMAIN prev.entries : ~InMonth(d, req.month)}
        /\ \A d \in DOMAIN store.entries : store.entries[d] = prev.entries[d]

OtherRecords(array, id) == {array[i] : i \in {j \in 1..Len(array) : array[j].id # id}}

ProfileComplete(profile) ==
    /\ DOMAIN profile = {"seller", "defaults"}
    /\ DOMAIN profile.seller = DOMAIN DefaultSeller
    /\ DOMAIN profile.defaults = DOMAIN DefaultDefaults
    /\ \A k \in DOMAIN DefaultSeller : profile.seller[k] # Undef
    /\ \A k \in DOMAIN DefaultDefaults : profile.defaults[k] # Undef

\* the section after a profile update: a field the request names has the
\* request's value, every other field the value it had
Merged(before, section) ==
    [k \in DOMAIN before |->
        IF section # Undef /\ section.f[k] # Undef THEN section.f[k] ELSE before[k]]

C23_UpsertEntryFrame ==
    Succeeded("POST /api/entry") =>
        /\ DOMAIN store.entries = DOMAIN prev.entries \cup {req.date}
        /\ \A d \in DOMAIN prev.entries \ {req.date} : store.entries[d] = prev.entries[d]
        /\ store.clients = prev.clients
        /\ store.invoices = prev.invoices
        /\ store.profile = prev.profile

====
